---- MODULE Spec2Model ----
(***************************************************************************)
(* The sentiment-refresh pipeline of codexometer (the edge function in     *)
(* src/unnamed/part_000): job lifecycle, token manager, rate limited       *)
(* client, per-subreddit processing, in-memory aggregation and the         *)
(* persistence flush against the relational store.                         *)
(*                                                                         *)
(* Strings the code inspects (titles, bodies, keywords) are sequences of   *)
(* one-character strings, so trimming, lower-casing and substring search   *)
(* are computed.  Compound scores are integers in units of 10^-6.          *)
(* Timestamps are epoch seconds; the clock is in milliseconds.             *)
(***************************************************************************)
EXTENDS Integers, Sequences, FiniteSets, TLC

(***************************************************************************)
(* Bounds of the model.                                                    *)
(***************************************************************************)
\* number of refresh requests served in one behaviour
MaxRuns == 2
\* number of operations disturbed by a fault in one behaviour: a store
\* operation answered with an error, a token acquisition rejected, or a
\* logical upstream request that sees non-2xx responses (the retries of one
\* request are bounded by the program itself)
MaxFaults == 2

(***************************************************************************)
(* Program constants.                                                      *)
(***************************************************************************)
MAX_ATTEMPTS == 3
RATE_LIMIT_MS == 900
POSITIVE_MIN == 50000
NEGATIVE_MAX == -50000
MS_PER_HOUR == 3600000
SECONDS_PER_DAY == 86400

\* the id no row has (a null foreign key)
NoId == 0

TIMEFRAME_CONFIG == [x \in {"24h", "7d", "30d"} |->
                        CASE x = "24h" -> [hours |-> 24]
                          [] x = "7d"  -> [hours |-> 7 * 24]
                          [] x = "30d" -> [hours |-> 30 * 24]]

(***************************************************************************)
(* Strings.                                                                *)
(***************************************************************************)
UpperChars == <<"A","B","C","D","E","F","G","H","I","J","K","L","M",
                "N","O","P","Q","R","S","T","U","V","W","X","Y","Z">>
LowerChars == <<"a","b","c","d","e","f","g","h","i","j","k","l","m",
                "n","o","p","q","r","s","t","u","v","w","x","y","z">>

LowerChar(c) ==
    IF \E i \in 1..26 : UpperChars[i] = c
    THEN LowerChars[CHOOSE i \in 1..26 : UpperChars[i] = c]
    ELSE c

\* String.prototype.toLowerCase
toLowerCase(s) == [i \in 1..Len(s) |-> LowerChar(s[i])]

IsSpace(c) == c \in {" ", "\n", "\t"}

\* String.prototype.trim
trim(s) ==
    IF \A i \in 1..Len(s) : IsSpace(s[i])
    THEN <<>>
    ELSE LET lo == CHOOSE i \in 1..Len(s) :
                      ~IsSpace(s[i]) /\ \A j \in 1..(i-1) : IsSpace(s[j])
             hi == CHOOSE i \in 1..Len(s) :
                      ~IsSpace(s[i]) /\ \A j \in (i+1)..Len(s) : IsSpace(s[j])
         IN SubSeq(s, lo, hi)

\* String.prototype.includes
includes(text, part) ==
    \E i \in 0..(Len(text) - Len(part)) :
        \A j \in 1..Len(part) : text[i + j] = part[j]

\* JSON values of the fields the code type-tests
JString(s) == [t |-> "string", v |-> s]
JUndefined == [t |-> "undefined", v |-> <<>>]
JNull == [t |-> "null", v |-> <<>>]

DELETED == <<"[","d","e","l","e","t","e","d","]">>
REMOVED == <<"[","r","e","m","o","v","e","d","]">>

normalizeKeyword(keyword) ==
    IF keyword.t # "string" \/ keyword.v = <<>>
    THEN JNull
    ELSE LET trimmed == toLowerCase(trim(keyword.v))
         IN IF Len(trimmed) > 0 THEN JString(trimmed) ELSE JNull

\* a labelFromScore with strict comparisons
labelFromScoreStrict(score) ==
    IF score > POSITIVE_MIN THEN "positive"
    ELSE IF score < NEGATIVE_MAX THEN "negative"
    ELSE "neutral"

labelFromScore(score) ==
    IF score >= POSITIVE_MIN THEN "positive"
    ELSE IF score <= NEGATIVE_MAX THEN "negative"
    ELSE "neutral"

\* the web library's labelFromScore
labelFromScoreWeb(score) ==
    IF score >= 50000 THEN "positive"
    ELSE IF score <= -50000 THEN "negative"
    ELSE "neutral"

matchesKeyword(text, keyword) ==
    IF keyword.t # "string" THEN TRUE
    ELSE includes(toLowerCase(text), keyword.v)

\* a sanitizeText that knows "[deleted]" only
sanitizeTextOfDeleted(value) ==
    IF value.t # "string" THEN <<>>
    ELSE IF value.v = DELETED THEN <<>>
    ELSE value.v

sanitizeText(value) ==
    IF value.t # "string" THEN <<>>
    ELSE IF value.v = DELETED \/ value.v = REMOVED THEN <<>>
    ELSE value.v

(***************************************************************************)
(* The upstream content API: what the listing and comments endpoints hold. *)
(***************************************************************************)
NewCodex == <<"N","e","w"," ","C","O","D","E","X">>
Unrelated == <<"u","n","r","e","l","a","t","e","d">>
Bad == <<"b","a","d">>
CodexOk == <<" ","c","o","d","e","x"," ","o","k">>
Meh == <<"m","e","h">>

\* the clock (Date.now(), milliseconds): day 20, 12:00:00.500 UTC
NowMs == 1771200500
Cutoff24h == (NowMs - 24 * MS_PER_HOUR) \div 1000

\* the rows of the subreddits table (seeded, never written by the pipeline)
Subreddits == << [id |-> 1, name |-> "chatgpt"], [id |-> 2, name |-> "codex"] >>

Child(kind, id, stickied, removed, created, title, selftext, body) ==
    [kind |-> kind,
     data |-> [id |-> id, stickied |-> stickied, removed_by_category |-> removed,
               created_utc |-> created, title |-> title, selftext |-> selftext,
               body |-> body]]

\* GET /r/<name>/new : listing.data.children
ListingChildren(name) ==
    CASE name = "chatgpt" ->
           << Child("t3", "p1", FALSE, FALSE, Cutoff24h + 1,
                    JString(NewCodex), JString(<<>>), JUndefined),
              Child("t3", "p2", FALSE, FALSE, Cutoff24h - 1,
                    JString(Unrelated), JString(Bad), JUndefined),
              Child("t3", "p3", TRUE, FALSE, Cutoff24h + 1,
                    JString(NewCodex), JString(<<>>), JUndefined),
              Child("t5", "x1", FALSE, FALSE, Cutoff24h + 1,
                    JString(NewCodex), JString(<<>>), JUndefined) >>
      [] name = "codex" ->
           << Child("t3", "p4", FALSE, FALSE, 18 * SECONDS_PER_DAY + 86340,
                    JString(DELETED), JUndefined, JUndefined),
              Child("t3", "p5", FALSE, TRUE, Cutoff24h + 1,
                    JString(NewCodex), JString(<<>>), JUndefined) >>
      [] OTHER -> <<>>

\* the same listing once the author of p1 has taken the text of the post
\* away (edited), the post being still listed
ListingChildrenAt(name, edited) ==
    IF edited /\ name = "chatgpt"
    THEN [ListingChildren(name) EXCEPT
             ![1] = Child("t3", "p1", FALSE, FALSE, Cutoff24h + 1,
                          JString(DELETED), JString(<<>>), JUndefined)]
    ELSE ListingChildren(name)

\* GET /comments/<id> : commentsListing[1].data.children
CommentChildren(postId) ==
    CASE postId = "p1" ->
           << Child("t1", "c1", FALSE, FALSE, Cutoff24h + 1,
                    JUndefined, JUndefined, JString(CodexOk)),
              Child("t1", "c2", FALSE, FALSE, Cutoff24h + 1,
                    JUndefined, JUndefined, JString(DELETED)),
              Child("t1", "c5", FALSE, FALSE, Cutoff24h - 1,
                    JUndefined, JUndefined, JString(Meh)),
              Child("t1", "c6", TRUE, FALSE, Cutoff24h,
                    JUndefined, JUndefined, JString(Meh)),
              Child("t1", "c7", FALSE, FALSE, Cutoff24h + 1,
                    JUndefined, JUndefined, JString(REMOVED)),
              Child("t1", "c8", FALSE, FALSE, Cutoff24h + 1,
                    JUndefined, JUndefined, JUndefined),
              Child("t1", "c9", FALSE, FALSE, Cutoff24h + 1,
                    JUndefined, JUndefined, JString(<<>>)) >>
      [] postId = "p2" ->
           << Child("t1", "c3", FALSE, FALSE, 18 * SECONDS_PER_DAY + 86340,
                    JUndefined, JUndefined, JString(Bad)) >>
      [] postId = "p4" ->
           << Child("t1", "c4", FALSE, TRUE, 19 * SECONDS_PER_DAY + 60,
                    JUndefined, JUndefined, JString(Meh)),
              Child("more", "x2", FALSE, FALSE, Cutoff24h + 1,
                    JUndefined, JUndefined, JString(Meh)) >>
      [] OTHER -> <<>>

\* SentimentIntensityAnalyzer.polarity_scores(text).compound, in 10^-6
polarity_scores(text) ==
    CASE text = NewCodex -> 50000
      [] text = Unrelated \o <<"\n">> \o Bad -> -50000
      [] text = Bad -> -49999
      [] text = CodexOk -> 49999
      [] OTHER -> 0

(***************************************************************************)
(* State.                                                                  *)
(***************************************************************************)
VARIABLES
    env,         \* Deno.env: which credentials are configured
    jobs,        \* table refresh_jobs, by job id
    posts,       \* table posts
    comments,    \* table comments
    sentiments,  \* table sentiments
    daily,       \* table subreddit_sentiment_daily
    nextId,      \* the store's id generator (gen_random_uuid)
    run,         \* the state of each invocation of the serve handler
    budget       \* the number of operations a fault may still disturb

vars == <<env, jobs, posts, comments, sentiments, daily, nextId, run, budget>>
store == <<posts, comments, sentiments, daily, nextId>>

Runs == 1..MaxRuns

NoJob == [status |-> "none", started_at |-> FALSE, finished_at |-> FALSE,
          duration_ms |-> FALSE, counts |-> <<0, 0, 0>>, error |-> JNull]

NoResponse == [code |-> 0, status |-> "", warnings |-> <<>>]

\* `delays` counts the awaits of delay(RATE_LIMIT_MS) in processSubreddit.
\* the request in progress has made no call yet
NoCall == [status |-> 0, attempt |-> 0]

\* no attempt of the request in progress has led to a retry
NoRetry == [status |-> 0, attempt |-> 0, waited |-> 0, refreshed |-> 0]

IdleRun ==
    [pc |-> "idle", timeframe |-> "", keyword |-> JNull, sinceEpoch |-> 0,
     jobId |-> NoId, token |-> 0, issued |-> 0, sent |-> 0, retried |-> NoRetry,
     last |-> NoCall, edited |-> FALSE, delays |-> 0,
     subIdx |-> 0, children |-> <<>>, post |-> "",
     attempt |-> 0, calls |-> 0, faulty |-> FALSE, res |-> "", resError |-> "",
     errors |-> <<>>, aggregates |-> {},
     postRecords |-> <<>>, postSentiments |-> <<>>,
     commentRecords |-> <<>>, commentSentiments |-> <<>>,
     postIdMap |-> {}, commentIdMap |-> {}, commentRows |-> <<>>,
     postSentimentRows |-> <<>>, commentSentimentRows |-> <<>>,
     result |-> <<0, 0, 0, 0>>, error |-> "", response |-> NoResponse,
     before |-> [sentiments |-> {}, daily |-> {}], log |-> <<>>]

\* the environments considered: everything configured, no Reddit user
\* credentials, no Reddit client credentials, no store credentials
Environments ==
    { [supabase |-> TRUE,  client |-> TRUE,  user |-> TRUE],
      [supabase |-> TRUE,  client |-> TRUE,  user |-> FALSE],
      [supabase |-> TRUE,  client |-> FALSE, user |-> FALSE],
      [supabase |-> FALSE, client |-> TRUE,  user |-> TRUE] }

\* the request bodies considered
Payloads ==
    { [timeframe |-> tf, keyword |-> kw] :
        tf \in {JUndefined, JString("24h"), JString("1y")},
        kw \in {JNull, JString(<<" ","C","o","d","e","x">>)} }

\* the request bodies of overlapping requests: the default timeframe, with
\* and without a keyword
OverlappingPayloads == { p \in Payloads : p.timeframe = JUndefined }

Init ==
    /\ env \in Environments
    /\ jobs = [j \in Runs |-> NoJob]
    /\ posts = {}
    /\ comments = {}
    /\ sentiments = {}
    /\ daily = {}
    /\ nextId = 1
    /\ run = [r \in Runs |-> IdleRun]
    /\ budget = MaxFaults

\* a fault may be injected while the budget lasts
CanFail == budget > 0

\* a store operation succeeds or (within the budget) returns an error
StoreAnswers == IF CanFail THEN {TRUE, FALSE} ELSE {TRUE}

Set(r, fields) ==
    [run EXCEPT ![r] = [f \in DOMAIN run[r] |->
                           IF f \in DOMAIN fields THEN fields[f] ELSE run[r][f]]]

(***************************************************************************)
(* TokenManager: requestRedditAccessToken / fetchRedditAccessToken.        *)
(***************************************************************************)
\* the access token the endpoint issues to a holder of `token` (0: none):
\* tokens are 1 and 2, and the one issued is never the one held
NewToken(token) == IF token = 1 THEN 2 ELSE 1

\* what the token endpoint may answer to one grant request
TokenReplies == {"ok", "unauthorized_client", "invalid_grant"}

\* requestRedditAccessToken(grantType) answered by reply:
\* [ok, message] ; the message is what the thrown Error carries
requestRedditAccessToken(e, grantType, reply) ==
    IF ~e.client
    THEN [ok |-> FALSE, message |-> "Reddit client credentials are not configured."]
    ELSE IF grantType = "password" /\ ~e.user
    THEN [ok |-> FALSE, message |-> "Reddit username/password are required for password grant."]
    ELSE IF reply = "unauthorized_client"
    THEN [ok |-> FALSE, message |-> "Reddit auth failed: unauthorized_client"]
    ELSE IF reply = "invalid_grant"
    THEN [ok |-> FALSE, message |-> "Reddit auth failed: invalid_grant"]
    ELSE [ok |-> TRUE, message |-> ""]

\* fetchRedditAccessToken() when the endpoint answers the password grant
\* with reply1 and the client-credentials grant with reply2:
\* [ok, message, grants] ; grants are the grant types requested, in order
fetchRedditAccessToken(e, reply1, reply2) ==
    LET viaClient == requestRedditAccessToken(e, "client_credentials", reply2)
        viaPassword == requestRedditAccessToken(e, "password", reply1)
    IN IF e.user
       THEN IF viaPassword.ok
            THEN [ok |-> TRUE, message |-> "", grants |-> <<"password">>]
            ELSE IF viaPassword.message # "Reddit auth failed: unauthorized_client"
            THEN [ok |-> FALSE, message |-> viaPassword.message,
                  grants |-> <<"password">>]
            ELSE [ok |-> viaClient.ok, message |-> viaClient.message,
                  grants |-> <<"password", "client_credentials">>]
       ELSE [ok |-> viaClient.ok, message |-> viaClient.message,
             grants |-> <<"client_credentials">>]

\* the replies the endpoint can give: replies other than "ok" (to a grant
\* that is requested) disturb the acquisition, which needs `free` or budget
TokenOutcomes(free) ==
    { o \in [r1 : TokenReplies, r2 : TokenReplies, cost : 0..1] :
        LET got == fetchRedditAccessToken(env, o.r1, o.r2)
            asked1 == env.client /\ env.user
            asked2 == env.client /\ "client_credentials" \in
                         {got.grants[i] : i \in 1..Len(got.grants)}
        IN /\ (~asked1 => o.r1 = "ok")
           /\ (~asked2 => o.r2 = "ok")
           /\ o.r2 # "unauthorized_client"
           /\ o.cost = IF o.r1 # "ok" \/ o.r2 # "ok" THEN 1 ELSE 0
           /\ (o.cost = 1 => free \/ budget > 0) }

(***************************************************************************)
(* JobLifecycle: updateJob and the head of the serve handler.              *)
(***************************************************************************)
\* updateJob: the patch is applied when the store accepts the update; a
\* store error is logged and the caller continues
updateJob(jobId, patch, ok) ==
    IF ok
    THEN [jobs EXCEPT ![jobId] = [f \in DOMAIN jobs[jobId] |->
                                     IF f \in DOMAIN patch THEN patch[f]
                                     ELSE jobs[jobId][f]]]
    ELSE jobs

\* `throw` anywhere inside the handler's try block
Throw(r, message) == Set(r, [pc |-> "catch", error |-> message])

\* the handler up to the creation of the job record
Start(r, payload) ==
    LET timeframe == IF payload.timeframe.t = "string"
                     THEN payload.timeframe.v ELSE "7d"
        keyword == normalizeKeyword(payload.keyword)
    IN /\ run[r].pc = "idle"
       /\ \A q \in Runs : q < r => run[q].pc # "idle"
       /\ IF timeframe \notin DOMAIN TIMEFRAME_CONFIG
          THEN run' = Set(r, [pc |-> "done", timeframe |-> timeframe,
                              response |-> [code |-> 400,
                                            status |-> "Unsupported timeframe.",
                                            warnings |-> <<>>]])
          ELSE IF ~env.supabase
          THEN run' = Set(r, [pc |-> "done", timeframe |-> timeframe,
                              keyword |-> keyword,
                              response |-> [code |-> 500,
                                            status |-> "Supabase credentials are not configured.",
                                            warnings |-> <<>>]])
          ELSE run' = Set(r, [pc |-> "insertJob", timeframe |-> timeframe,
                              keyword |-> keyword,
                              before |-> [sentiments |-> sentiments,
                                          daily |-> daily]])
       /\ UNCHANGED <<env, jobs, store, budget>>

\* the one request of a behaviour
Trigger(r) ==
    /\ r = 1
    /\ \E payload \in Payloads : Start(r, payload)

\* a request that arrives when the requests before it have been answered
TriggerNext(r) ==
    /\ \A q \in Runs : run[q].pc \in {"idle", "done"}
    /\ \E payload \in Payloads : Start(r, payload)

\* a request that may arrive while earlier ones are still being served
TriggerOverlapping(r) ==
    /\ \E payload \in OverlappingPayloads : Start(r, payload)

InsertJob(r) ==
    /\ run[r].pc = "insertJob"
    /\ \E ok \in StoreAnswers :
         IF ok
         THEN /\ jobs' = [jobs EXCEPT ![r] = [NoJob EXCEPT !.status = "queued"]]
              /\ run' = Set(r, [pc |-> "markProcessing", jobId |-> r])
              /\ budget' = budget
         ELSE /\ jobs' = jobs
              /\ run' = Throw(r, "Failed to create refresh job.")
              /\ budget' = budget - 1
    /\ UNCHANGED <<env, store>>

MarkProcessing(r) ==
    /\ run[r].pc = "markProcessing"
    /\ \E ok \in StoreAnswers :
         /\ jobs' = updateJob(run[r].jobId,
                              [status |-> "processing", started_at |-> TRUE], ok)
         /\ budget' = IF ok THEN budget ELSE budget - 1
    /\ run' = Set(r, [pc |-> "acquireToken"])
    /\ UNCHANGED <<env, store>>

\* tokenManager = { value: await fetchRedditAccessToken(), refresh }
AcquireToken(r) ==
    /\ run[r].pc = "acquireToken"
    /\ \E o \in TokenOutcomes(FALSE) :
         LET got == fetchRedditAccessToken(env, o.r1, o.r2)
         IN /\ budget' = budget - o.cost
            /\ IF got.ok
               THEN run' = Set(r, [pc |-> "loadSubreddits",
                                   token |-> NewToken(run[r].token),
                                   issued |-> NewToken(run[r].token)])
               ELSE run' = Throw(r, got.message)
    /\ UNCHANGED <<env, jobs, store>>

\* sinceEpoch of processRefresh
SinceEpoch(timeframe) ==
    (NowMs - TIMEFRAME_CONFIG[timeframe].hours * MS_PER_HOUR) \div 1000

\* the state in which one logical request (fetchJson(url, tokenManager))
\* starts
BeginFetch(pc) == [pc |-> pc, attempt |-> 1, calls |-> 0, faulty |-> FALSE,
                   res |-> "pending", resError |-> "", retried |-> NoRetry,
                   last |-> NoCall]

\* processRefresh up to the first processSubreddit call
LoadSubreddits(r) ==
    /\ run[r].pc = "loadSubreddits"
    /\ \E ok \in StoreAnswers :
         /\ budget' = IF ok THEN budget ELSE budget - 1
         /\ IF ~ok
            THEN run' = Throw(r, "Failed to load subreddits")
            ELSE IF Len(Subreddits) = 0
            THEN run' = Throw(r, "No subreddits configured. Seed the table first.")
            ELSE run' = Set(r, BeginFetch("listing") @@
                               [sinceEpoch |-> SinceEpoch(run[r].timeframe),
                                subIdx |-> 1])
    /\ UNCHANGED <<env, jobs, store>>

(***************************************************************************)
(* RateLimitedClient: fetchJson.                                           *)
(***************************************************************************)
HttpStatuses == {200, 401, 403, 429, 500}

\* a guard that lets a request retry after its third attempt
MayRetryOnceMore(attempt) == attempt <= MAX_ATTEMPTS

\* the `attempt < 3` guard of both retry branches
MayRetry(attempt) == attempt < MAX_ATTEMPTS

\* a retry with backoff of server errors too
RateLimitedOr500 == {429, 403, 500}

\* the statuses of the backoff branch
RateLimited == {429, 403}

\* a refresh whose token is not put into the manager
tokenRefreshDropped(token) == [token |-> token, issued |-> NewToken(token)]

\* tokenManager.value = await tokenManager.refresh(): the endpoint issues
\* a token and the manager takes it
tokenRefresh(token) == [token |-> NewToken(token), issued |-> NewToken(token)]

\* a delay that does not grow with the attempt
delayFlat(attempt) == RATE_LIMIT_MS

\* the time waited by delay(RATE_LIMIT_MS * attempt)
delay(attempt) == RATE_LIMIT_MS * attempt

\* one fetch() of fetchJson answered with `status`; o is what the token
\* endpoint answers should the 401 branch call tokenManager.refresh().
\* `sent` is the token the call carried, `last` the status it was answered
\* with, `retried` what the call did before the retry it led to.
fetchJson(r, status, o) ==
    LET me == run[r]
        got == fetchRedditAccessToken(env, o.r1, o.r2)
        call == [calls |-> me.calls + 1, sent |-> me.token,
                 last |-> [status |-> status, attempt |-> me.attempt],
                 faulty |-> me.faulty \/ status \notin 200..299]
        over == call @@ [retried |-> NoRetry]
    IN IF status = 401 /\ MayRetry(me.attempt)
       THEN IF got.ok
            THEN call @@ tokenRefresh(me.token) @@
                 [attempt |-> me.attempt + 1,
                  retried |-> [status |-> status, attempt |-> me.attempt,
                               waited |-> 0, refreshed |-> 1]]
            ELSE over @@ [res |-> "err", resError |-> got.message]
       ELSE IF status \in RateLimited /\ MayRetry(me.attempt)
       THEN call @@ [attempt |-> me.attempt + 1,
                     retried |-> [status |-> status, attempt |-> me.attempt,
                                  waited |-> delay(me.attempt),
                                  refreshed |-> 0]]
       ELSE IF status \notin 200..299
       THEN over @@ [res |-> "err", resError |-> "Reddit request failed"]
       ELSE over @@ [res |-> "ok"]

NoRefresh == [r1 |-> "ok", r2 |-> "ok", cost |-> 0]

\* one HTTP attempt of the logical request in progress
HttpAttempt(r) ==
    /\ run[r].pc \in {"listing", "comments"}
    /\ run[r].res = "pending"
    /\ \E status \in HttpStatuses :
         \E o \in IF status = 401 /\ MayRetry(run[r].attempt)
                  THEN TokenOutcomes(TRUE) ELSE {NoRefresh} :
           /\ status # 200 => run[r].faulty \/ CanFail
           /\ budget' = IF status # 200 /\ ~run[r].faulty
                        THEN budget - 1 ELSE budget
           /\ run' = Set(r, fetchJson(r, status, o))
    /\ UNCHANGED <<env, jobs, store>>

(***************************************************************************)
(* Aggregator and ContentFilter.                                           *)
(***************************************************************************)
\* the UTC day of an ISO timestamp (here: epoch milliseconds)
BucketDate(timestamp) == timestamp \div (SECONDS_PER_DAY * 1000)

\* an update that files every item of a community under the day of the
\* community's first item
updateAggregateByCommunity(aggregates, args) ==
    LET found == {row \in aggregates : row.subreddit_id = args.subredditId}
        row == IF found = {}
               THEN [subreddit_id |-> args.subredditId,
                     timeframe |-> args.timeframe,
                     bucket_start |-> BucketDate(args.timestamp),
                     positive |-> 0, neutral |-> 0, negative |-> 0,
                     activity_count |-> 0]
               ELSE CHOOSE x \in found : TRUE
    IN (aggregates \ found) \cup
          {[row EXCEPT !.activity_count = @ + 1,
                       ![args.label] = @ + 1]}

updateAggregate(aggregates, args) ==
    LET bucketDate == BucketDate(args.timestamp)
        found == {row \in aggregates : /\ row.subreddit_id = args.subredditId
                                       /\ row.bucket_start = bucketDate}
        row == IF found = {}
               THEN [subreddit_id |-> args.subredditId,
                     timeframe |-> args.timeframe,
                     bucket_start |-> bucketDate,
                     positive |-> 0, neutral |-> 0, negative |-> 0,
                     activity_count |-> 0]
               ELSE CHOOSE x \in found : TRUE
        counted == IF args.label = "positive"
                   THEN [row EXCEPT !.positive = @ + 1]
                   ELSE IF args.label = "negative"
                   THEN [row EXCEPT !.negative = @ + 1]
                   ELSE [row EXCEPT !.neutral = @ + 1]
    IN (aggregates \ found) \cup {[counted EXCEPT !.activity_count = @ + 1]}

\* combinedForKeyword of a post
CombinedText(data) ==
    trim(sanitizeText(data.title) \o <<"\n">> \o sanitizeText(data.selftext))

\* post tests whose window starts one second before the cutoff
PostKeptFromSecondBefore(child, sinceEpoch, keyword) ==
    /\ child.kind = "t3"
    /\ ~(child.data.stickied \/ child.data.removed_by_category)
    /\ ~(child.data.created_utc < sinceEpoch - 1)
    /\ ~(keyword.t = "string" /\ ~matchesKeyword(CombinedText(child.data), keyword))

\* the `continue` tests of the post loop
PostKept(child, sinceEpoch, keyword) ==
    /\ child.kind = "t3"
    /\ ~(child.data.stickied \/ child.data.removed_by_category)
    /\ ~(child.data.created_utc < sinceEpoch)
    /\ ~(keyword.t = "string" /\ ~matchesKeyword(CombinedText(child.data), keyword))

\* the `continue` tests of the comment loop
CommentKept(child, sinceEpoch, keyword) ==
    /\ child.kind = "t1"
    /\ ~(child.data.created_utc < sinceEpoch)
    /\ sanitizeText(child.data.body) # <<>>
    /\ ~(keyword.t = "string"
         /\ ~matchesKeyword(sanitizeText(child.data.body), keyword))

(***************************************************************************)
(* SubredditProcessor: processSubreddit, driven by processRefresh's loop.  *)
(***************************************************************************)
Subreddit(r) == Subreddits[run[r].subIdx]

\* a warning pushed on `errors`
Warning(subreddit, what, postId, message) ==
    [subreddit |-> subreddit, what |-> what, post |-> postId, message |-> message]

\* processSubreddit returns; processRefresh appends its drafts and calls
\* it for the next subreddit, or goes on to the flush after the last one
NextSubreddit(r) ==
    IF run[r].subIdx < Len(Subreddits)
    THEN BeginFetch("listing") @@ [subIdx |-> run[r].subIdx + 1]
    ELSE [pc |-> "upsertPosts"]

\* a listing failure that is thrown on to the handler
ListingRethrown(r) ==
    /\ run[r].pc = "listing"
    /\ run[r].res = "err"
    /\ run' = Throw(r, run[r].resError)
    /\ UNCHANGED <<env, jobs, store, budget>>

\* the catch block around the listing fetch
ListingFailed(r) ==
    /\ run[r].pc = "listing"
    /\ run[r].res = "err"
    /\ run' = Set(r, NextSubreddit(r) @@
                     [errors |-> Append(run[r].errors,
                                   Warning(Subreddit(r).name, "Failed to fetch posts",
                                           "", run[r].resError)),
                      last |-> NoCall,
                      log |-> Append(run[r].log, <<Subreddit(r).name, "err">>)])
    /\ UNCHANGED <<env, jobs, store, budget>>

ListingFetched(r) ==
    /\ run[r].pc = "listing"
    /\ run[r].res = "ok"
    /\ run' = Set(r, [pc |-> "posts",
                      children |-> ListingChildrenAt(Subreddit(r).name,
                                                     run[r].edited),
                      log |-> Append(run[r].log, <<Subreddit(r).name, "ok">>)])
    /\ UNCHANGED <<env, jobs, store, budget>>

\* the drafts one kept post adds before its comments are requested
PostDrafts(r, data) ==
    LET me == run[r]
        postedAt == data.created_utc * 1000
        combined == CombinedText(data)
        compound == polarity_scores(combined)
        label == labelFromScore(compound)
        record == [reddit_id |-> data.id, subreddit_id |-> Subreddit(r).id,
                   title |-> sanitizeText(data.title), posted_at |-> postedAt]
    IN [postRecords |-> Append(me.postRecords, record)] @@
       (IF Len(combined) > 0
        THEN [postSentiments |->
                 Append(me.postSentiments,
                        [reddit_id |-> data.id, compound |-> compound,
                         label |-> label, scored_at |-> r,
                         posted_at |-> postedAt,
                         subreddit_id |-> Subreddit(r).id]),
              aggregates |->
                 updateAggregate(me.aggregates,
                                 [subredditId |-> Subreddit(r).id,
                                  timeframe |-> me.timeframe,
                                  timestamp |-> postedAt, label |-> label])]
        ELSE [postSentiments |-> me.postSentiments])

\* one iteration of the post loop, up to the comments request
NextChild(r) ==
    /\ run[r].pc = "posts"
    /\ run[r].children # <<>>
    /\ LET child == Head(run[r].children)
       IN IF PostKept(child, run[r].sinceEpoch, run[r].keyword)
          THEN run' = Set(r, BeginFetch("comments") @@ PostDrafts(r, child.data) @@
                             [children |-> Tail(run[r].children),
                              post |-> child.data.id])
          ELSE run' = Set(r, [children |-> Tail(run[r].children)])
    /\ UNCHANGED <<env, jobs, store, budget>>

\* a comments failure that skips the rest of the subreddit's posts
CommentsFailedLeavesSubreddit(r) ==
    /\ run[r].pc = "comments"
    /\ run[r].res = "err"
    /\ run' = Set(r, [pc |-> "posts", children |-> <<>>,
                      errors |-> Append(run[r].errors,
                                   Warning(Subreddit(r).name,
                                           "Failed to fetch comments for",
                                           run[r].post, run[r].resError)),
                      last |-> NoCall,
                      delays |-> run[r].delays + 1,
                      log |-> Append(run[r].log, <<run[r].post, "err">>)])
    /\ UNCHANGED <<env, jobs, store, budget>>

\* the catch block around the comments fetch (followed by the delay)
CommentsFailed(r) ==
    /\ run[r].pc = "comments"
    /\ run[r].res = "err"
    /\ run' = Set(r, [pc |-> "posts",
                      errors |-> Append(run[r].errors,
                                   Warning(Subreddit(r).name,
                                           "Failed to fetch comments for",
                                           run[r].post, run[r].resError)),
                      last |-> NoCall,
                      delays |-> run[r].delays + 1,
                      log |-> Append(run[r].log, <<run[r].post, "err">>)])
    /\ UNCHANGED <<env, jobs, store, budget>>

\* the comment loop over the children left, on the drafts d
RECURSIVE CommentDrafts(_, _, _)
CommentDrafts(r, children, d) ==
    IF children = <<>> THEN d
    ELSE LET child == Head(children)
             body == sanitizeText(child.data.body)
             postedAt == child.data.created_utc * 1000
             compound == polarity_scores(body)
             label == labelFromScore(compound)
         IN IF ~CommentKept(child, run[r].sinceEpoch, run[r].keyword)
            THEN CommentDrafts(r, Tail(children), d)
            ELSE CommentDrafts(r, Tail(children),
                   [commentRecords |->
                       Append(d.commentRecords,
                              [reddit_id |-> child.data.id,
                               post_reddit_id |-> run[r].post,
                               posted_at |-> postedAt, body |-> body]),
                    commentSentiments |->
                       Append(d.commentSentiments,
                              [reddit_id |-> child.data.id, compound |-> compound,
                               label |-> label, scored_at |-> r,
                               posted_at |-> postedAt,
                               subreddit_id |-> Subreddit(r).id]),
                    aggregates |->
                       updateAggregate(d.aggregates,
                                       [subredditId |-> Subreddit(r).id,
                                        timeframe |-> run[r].timeframe,
                                        timestamp |-> postedAt, label |-> label])])

\* the comments of the current post arrived: comment loop, then the delay
CommentsFetched(r) ==
    /\ run[r].pc = "comments"
    /\ run[r].res = "ok"
    /\ run' = Set(r, [pc |-> "posts",
                      delays |-> run[r].delays + 1,
                      log |-> Append(run[r].log, <<run[r].post, "ok">>)] @@
                     CommentDrafts(r, CommentChildren(run[r].post),
                                   [commentRecords |-> run[r].commentRecords,
                                    commentSentiments |-> run[r].commentSentiments,
                                    aggregates |-> run[r].aggregates]))
    /\ UNCHANGED <<env, jobs, store, budget>>

\* the post loop is over
SubredditDone(r) ==
    /\ run[r].pc = "posts"
    /\ run[r].children = <<>>
    /\ run' = Set(r, NextSubreddit(r))
    /\ UNCHANGED <<env, jobs, store, budget>>

(***************************************************************************)
(* The store's operations, as the flush uses them.                         *)
(***************************************************************************)
Range(seq) == {seq[i] : i \in 1..Len(seq)}

\* the id a {reddit_id -> id} map gives, NoId (undefined) when absent
Lookup(map, redditId) ==
    IF \E e \in map : e.reddit_id = redditId
    THEN (CHOOSE e \in map : e.reddit_id = redditId).id
    ELSE NoId

\* from(table).upsert(records, {onConflict: "reddit_id"}) on posts or
\* comments: a known reddit_id keeps its row id and takes the record's
\* columns, a new one gets a fresh id.  Returns [rows, nextId].
RECURSIVE UpsertByRedditId(_, _, _)
UpsertByRedditId(rows, records, nid) ==
    IF records = <<>> THEN [rows |-> rows, nextId |-> nid]
    ELSE LET rec == Head(records)
             old == {x \in rows : x.reddit_id = rec.reddit_id}
         IN IF old = {}
            THEN UpsertByRedditId(rows \cup {[id |-> nid] @@ rec},
                                  Tail(records), nid + 1)
            ELSE UpsertByRedditId((rows \ old) \cup
                                     {[id |-> (CHOOSE x \in old : TRUE).id] @@ rec},
                                  Tail(records), nid)

\* from(table).select("id, reddit_id").in("reddit_id", ids)
SelectIds(rows, ids) ==
    {[reddit_id |-> x.reddit_id, id |-> x.id] : x \in {y \in rows : y.reddit_id \in ids}}

\* a delete by post that removes nothing
KeepSentimentsOfPosts(rows, ids) == rows

\* from("sentiments").delete().in("post_id", ids)
DeleteSentimentsByPost(rows, ids) == {x \in rows : x.post_id \notin ids}

\* a delete by comment that removes nothing
KeepSentimentsOfComments(rows, ids) == rows

\* from("sentiments").delete().in("comment_id", ids)
DeleteSentimentsByComment(rows, ids) == {x \in rows : x.comment_id \notin ids}

\* the stored form of an inserted sentiment row: columns the insert does
\* not name are null
SentimentRow(row, id) ==
    [id |-> id, source_type |-> row.source_type,
     post_id |-> IF "post_id" \in DOMAIN row THEN row.post_id ELSE NoId,
     comment_id |-> IF "comment_id" \in DOMAIN row THEN row.comment_id ELSE NoId,
     compound |-> row.compound, label |-> row.label, scored_at |-> row.scored_at]

\* from("sentiments").insert(rows): every row is a new row
InsertSentiments(rows, new, nid) ==
    rows \cup {SentimentRow(new[i], nid + i - 1) : i \in 1..Len(new)}

\* a delete of the rows of the communities whatever their timeframe
DeleteAggregatesOfAnyTimeframe(rows, timeframe, subredditIds) ==
    {x \in rows : x.subreddit_id \notin subredditIds}

\* a delete of aggregates that removes nothing
KeepAggregates(rows, timeframe, subredditIds) == rows

\* from("subreddit_sentiment_daily").delete().eq("timeframe", timeframe)
\*    .in("subreddit_id", subredditIds)
DeleteAggregatesOf(rows, timeframe, subredditIds) ==
    {x \in rows : ~(x.timeframe = timeframe /\ x.subreddit_id \in subredditIds)}

SameBucket(x, y) ==
    /\ x.subreddit_id = y.subreddit_id
    /\ x.timeframe = y.timeframe
    /\ x.bucket_start = y.bucket_start

\* from("subreddit_sentiment_daily").upsert(rows,
\*    {onConflict: "subreddit_id,timeframe,bucket_start"})
UpsertAggregateRows(rows, new) ==
    {x \in rows : \A y \in new : ~SameBucket(x, y)} \cup new

(***************************************************************************)
(* PersistenceOrchestrator: the flush of processRefresh, one action per    *)
(* store operation, each with the synchronous code that follows it.        *)
(***************************************************************************)
UpsertPosts(r) ==
    /\ run[r].pc = "upsertPosts"
    /\ IF Len(run[r].postRecords) > 0
       THEN \E ok \in StoreAnswers :
              LET done == UpsertByRedditId(posts, run[r].postRecords, nextId)
              IN IF ok
                 THEN /\ posts' = done.rows
                      /\ nextId' = done.nextId
                      /\ run' = Set(r, [pc |-> "loadPosts"])
                      /\ budget' = budget
                 ELSE /\ run' = Throw(r, "Failed to upsert posts")
                      /\ budget' = budget - 1
                      /\ UNCHANGED <<posts, nextId>>
       ELSE /\ run' = Set(r, [pc |-> "loadPosts"])
            /\ UNCHANGED <<posts, nextId, budget>>
    /\ UNCHANGED <<env, jobs, comments, sentiments, daily>>

\* commentRows : the comment drafts re-keyed to their post's row id
CommentRows(drafts, postIdMap) ==
    LET kept == SelectSeq(drafts,
                          LAMBDA d : Lookup(postIdMap, d.post_reddit_id) # NoId)
    IN [i \in 1..Len(kept) |->
          [reddit_id |-> kept[i].reddit_id,
           post_id |-> Lookup(postIdMap, kept[i].post_reddit_id),
           posted_at |-> kept[i].posted_at, body |-> kept[i].body]]

LoadPosts(r) ==
    /\ run[r].pc = "loadPosts"
    /\ \E ok \in StoreAnswers :
         LET uniquePostRedditIds == {x.reddit_id : x \in Range(run[r].postRecords)}
             postIdMap == SelectIds(posts, uniquePostRedditIds)
         IN /\ budget' = IF ok THEN budget ELSE budget - 1
            /\ IF ok
               THEN run' = Set(r, [pc |-> "upsertComments",
                                   postIdMap |-> postIdMap,
                                   commentRows |->
                                      CommentRows(run[r].commentRecords, postIdMap)])
               ELSE run' = Throw(r, "Failed to load stored posts")
    /\ UNCHANGED <<env, jobs, store>>

UpsertComments(r) ==
    /\ run[r].pc = "upsertComments"
    /\ IF Len(run[r].commentRows) > 0
       THEN \E ok \in StoreAnswers :
              LET done == UpsertByRedditId(comments, run[r].commentRows, nextId)
              IN IF ok
                 THEN /\ comments' = done.rows
                      /\ nextId' = done.nextId
                      /\ run' = Set(r, [pc |-> "loadComments"])
                      /\ budget' = budget
                 ELSE /\ run' = Throw(r, "Failed to upsert comments")
                      /\ budget' = budget - 1
                      /\ UNCHANGED <<comments, nextId>>
       ELSE /\ run' = Set(r, [pc |-> "loadComments"])
            /\ UNCHANGED <<comments, nextId, budget>>
    /\ UNCHANGED <<env, jobs, posts, sentiments, daily>>

\* postSentimentRows : the post sentiment drafts re-keyed to row ids
PostSentimentRows(drafts, postIdMap) ==
    LET kept == SelectSeq(drafts, LAMBDA d : Lookup(postIdMap, d.reddit_id) # NoId)
    IN [i \in 1..Len(kept) |->
          [source_type |-> "post",
           post_id |-> Lookup(postIdMap, kept[i].reddit_id),
           compound |-> kept[i].compound, label |-> kept[i].label,
           scored_at |-> kept[i].scored_at]]

\* comment sentiment rows that name a post as well
CommentSentimentRowsWithPost(drafts, commentIdMap) ==
    LET kept == SelectSeq(drafts, LAMBDA d : Lookup(commentIdMap, d.reddit_id) # NoId)
    IN [i \in 1..Len(kept) |->
          [source_type |-> "comment",
           comment_id |-> Lookup(commentIdMap, kept[i].reddit_id),
           post_id |-> Lookup(commentIdMap, kept[i].reddit_id),
           compound |-> kept[i].compound, label |-> kept[i].label,
           scored_at |-> kept[i].scored_at]]

\* commentSentimentRows : the comment sentiment drafts re-keyed to row ids
CommentSentimentRows(drafts, commentIdMap) ==
    LET kept == SelectSeq(drafts, LAMBDA d : Lookup(commentIdMap, d.reddit_id) # NoId)
    IN [i \in 1..Len(kept) |->
          [source_type |-> "comment",
           comment_id |-> Lookup(commentIdMap, kept[i].reddit_id),
           compound |-> kept[i].compound, label |-> kept[i].label,
           scored_at |-> kept[i].scored_at]]

LoadComments(r) ==
    /\ run[r].pc = "loadComments"
    /\ \E ok \in StoreAnswers :
         LET uniqueCommentIds == {x.reddit_id : x \in Range(run[r].commentRows)}
             commentIdMap == SelectIds(comments, uniqueCommentIds)
         IN /\ budget' = IF ok THEN budget ELSE budget - 1
            /\ IF ok
               THEN run' = Set(r, [pc |-> "deletePostSentiments",
                                   commentIdMap |-> commentIdMap,
                                   postSentimentRows |->
                                      PostSentimentRows(run[r].postSentiments,
                                                        run[r].postIdMap),
                                   commentSentimentRows |->
                                      CommentSentimentRows(run[r].commentSentiments,
                                                           commentIdMap)])
               ELSE run' = Throw(r, "Failed to load stored comments")
    /\ UNCHANGED <<env, jobs, store>>

postIdsForCleanup(r) == {x.post_id : x \in Range(run[r].postSentimentRows)}
commentIdsForCleanup(r) == {x.comment_id : x \in Range(run[r].commentSentimentRows)}

\* one write on the sentiments table: skipped when `needed` is false,
\* otherwise it leaves `written` or fails with `message`
SentimentsStep(r, pc, next, needed, written, newNextId, message) ==
    /\ run[r].pc = pc
    /\ IF needed
       THEN \E ok \in StoreAnswers :
              IF ok
              THEN /\ sentiments' = written
                   /\ nextId' = newNextId
                   /\ run' = Set(r, [pc |-> next])
                   /\ budget' = budget
              ELSE /\ run' = Throw(r, message)
                   /\ budget' = budget - 1
                   /\ UNCHANGED <<sentiments, nextId>>
       ELSE /\ run' = Set(r, [pc |-> next])
            /\ UNCHANGED <<sentiments, nextId, budget>>
    /\ UNCHANGED <<env, jobs, posts, comments, daily>>

\* a cleanup of post sentiments that goes on with the insert of post sentiments
DeletePostSentimentsThenInsert(r) ==
    SentimentsStep(r, "deletePostSentiments", "insertPostSentiments",
                   postIdsForCleanup(r) # {},
                   DeleteSentimentsByPost(sentiments, postIdsForCleanup(r)),
                   nextId, "Failed to clean existing post sentiments")

DeletePostSentiments(r) ==
    SentimentsStep(r, "deletePostSentiments", "deleteCommentSentiments",
                   postIdsForCleanup(r) # {},
                   DeleteSentimentsByPost(sentiments, postIdsForCleanup(r)),
                   nextId, "Failed to clean existing post sentiments")

DeleteCommentSentiments(r) ==
    SentimentsStep(r, "deleteCommentSentiments", "insertPostSentiments",
                   commentIdsForCleanup(r) # {},
                   DeleteSentimentsByComment(sentiments, commentIdsForCleanup(r)),
                   nextId, "Failed to clean existing comment sentiments")

InsertPostSentiments(r) ==
    SentimentsStep(r, "insertPostSentiments", "insertCommentSentiments",
                   Len(run[r].postSentimentRows) > 0,
                   InsertSentiments(sentiments, run[r].postSentimentRows, nextId),
                   nextId + Len(run[r].postSentimentRows),
                   "Failed to insert post sentiments")

InsertCommentSentiments(r) ==
    SentimentsStep(r, "insertCommentSentiments", "deleteAggregates",
                   Len(run[r].commentSentimentRows) > 0,
                   InsertSentiments(sentiments, run[r].commentSentimentRows, nextId),
                   nextId + Len(run[r].commentSentimentRows),
                   "Failed to insert comment sentiments")

\* the ProcessResult returned at the end of processRefresh
Result(r) ==
    << Len(run[r].postRecords), Len(run[r].commentRows),
       Len(run[r].postSentimentRows) + Len(run[r].commentSentimentRows),
       Cardinality(run[r].aggregates) >>

subredditsProcessed(r) == {x.subreddit_id : x \in run[r].aggregates}

DeleteAggregates(r) ==
    /\ run[r].pc = "deleteAggregates"
    /\ IF run[r].aggregates # {}
       THEN \E ok \in StoreAnswers :
              IF ok
              THEN /\ daily' = DeleteAggregatesOf(daily, run[r].timeframe,
                                                  subredditsProcessed(r))
                   /\ run' = Set(r, [pc |-> "upsertAggregates"])
                   /\ budget' = budget
              ELSE /\ run' = Throw(r, "Failed to clean sentiment aggregates")
                   /\ budget' = budget - 1
                   /\ daily' = daily
       ELSE /\ run' = Set(r, [pc |-> "finalize", result |-> Result(r)])
            /\ UNCHANGED <<daily, budget>>
    /\ UNCHANGED <<env, jobs, posts, comments, sentiments, nextId>>

UpsertAggregates(r) ==
    /\ run[r].pc = "upsertAggregates"
    /\ \E ok \in StoreAnswers :
         IF ok
         THEN /\ daily' = UpsertAggregateRows(daily, run[r].aggregates)
              /\ run' = Set(r, [pc |-> "finalize", result |-> Result(r)])
              /\ budget' = budget
         ELSE /\ run' = Throw(r, "Failed to upsert sentiment aggregates")
              /\ budget' = budget - 1
              /\ daily' = daily
    /\ UNCHANGED <<env, jobs, posts, comments, sentiments, nextId>>

(***************************************************************************)
(* JobLifecycle: the two ends of the serve handler.                        *)
(***************************************************************************)
\* a join that puts no separator between the elements
joinUnseparated(seq, sep) == seq

\* seq.join(sep): the elements in order with sep between two of them
RECURSIVE join(_, _)
join(seq, sep) ==
    IF Len(seq) <= 1 THEN seq
    ELSE <<Head(seq), sep>> \o join(Tail(seq), sep)

\* the status the success path writes to the job record
RecordedStatus(errors) == "completed"

\* a response status that does not tell of warnings
ResponseStatusPlain(errors) == "completed"

\* the status the success path returns in the response
ResponseStatus(errors) ==
    IF Len(errors) > 0 THEN "completed_with_warnings" ELSE "completed"

\* the handler returned `response`: its locals are gone; what is kept is
\* what the request was and did (for comparing requests with each other)
Returned(r, response) ==
    [IdleRun EXCEPT !.pc = "done", !.response = response,
                    !.timeframe = run[r].timeframe, !.keyword = run[r].keyword,
                    !.sinceEpoch = run[r].sinceEpoch, !.jobId = run[r].jobId,
                    !.log = run[r].log, !.before = run[r].before,
                    !.aggregates = run[r].aggregates,
                    !.edited = run[r].edited]

\* processRefresh returned: the job is finalised and the response sent
Finalize(r) ==
    /\ run[r].pc = "finalize"
    /\ \E ok \in StoreAnswers :
         /\ jobs' = updateJob(run[r].jobId,
                      [status |-> RecordedStatus(run[r].errors),
                       finished_at |-> TRUE,
                       counts |-> <<run[r].result[1], run[r].result[2],
                                    run[r].result[3]>>,
                       duration_ms |-> TRUE,
                       error |-> IF Len(run[r].errors) > 0
                                 THEN JString(join(run[r].errors, " | "))
                                 ELSE JNull], ok)
         /\ budget' = IF ok THEN budget ELSE budget - 1
    /\ run' = [run EXCEPT ![r] =
                  Returned(r, [code |-> 200,
                               status |-> ResponseStatus(run[r].errors),
                               warnings |-> run[r].errors])]
    /\ UNCHANGED <<env, store>>

\* the catch block of the handler
Catch(r) ==
    /\ run[r].pc = "catch"
    /\ IF run[r].jobId # NoId
       THEN \E ok \in StoreAnswers :
              /\ jobs' = updateJob(run[r].jobId,
                           [status |-> "failed", finished_at |-> TRUE,
                            error |-> JString(run[r].error),
                            duration_ms |-> TRUE], ok)
              /\ budget' = IF ok THEN budget ELSE budget - 1
       ELSE UNCHANGED <<jobs, budget>>
    /\ run' = [run EXCEPT ![r] =
                  Returned(r, [code |-> 500, status |-> run[r].error,
                               warnings |-> <<>>])]
    /\ UNCHANGED <<env, store>>

(***************************************************************************)
(* Specifications.                                                         *)
(***************************************************************************)
\* the steps of the handler that need no fault to happen
Step(r) ==
    \/ InsertJob(r) \/ MarkProcessing(r) \/ AcquireToken(r) \/ LoadSubreddits(r)
    \/ HttpAttempt(r) \/ ListingFetched(r)
    \/ NextChild(r) \/ CommentsFetched(r) \/ SubredditDone(r)
    \/ UpsertPosts(r) \/ LoadPosts(r) \/ UpsertComments(r) \/ LoadComments(r)
    \/ DeletePostSentiments(r) \/ DeleteCommentSentiments(r)
    \/ InsertPostSentiments(r) \/ InsertCommentSentiments(r)
    \/ DeleteAggregates(r) \/ UpsertAggregates(r)
    \/ Finalize(r)

\* the steps that handle a failure
Recover(r) == ListingFailed(r) \/ CommentsFailed(r) \/ Catch(r)

\* one request
Next == \E r \in Runs : Trigger(r) \/ Step(r) \/ Recover(r)

Spec == Init /\ [][Next]_vars

\* requests served one after another
NextSequential == \E r \in Runs : TriggerNext(r) \/ Step(r) \/ Recover(r)

SpecSequential == Init /\ [][NextSequential]_vars

\* requests that may overlap, on a store and an upstream that do not fail
InitOverlapping ==
    /\ env = [supabase |-> TRUE, client |-> TRUE, user |-> TRUE]
    /\ jobs = [j \in Runs |-> NoJob]
    /\ posts = {}
    /\ comments = {}
    /\ sentiments = {}
    /\ daily = {}
    /\ nextId = 1
    /\ run = [r \in Runs |-> IdleRun]
    /\ budget = 0

NextOverlapping == \E r \in Runs : TriggerOverlapping(r) \/ Step(r)

SpecOverlapping == InitOverlapping /\ [][NextOverlapping]_vars

\* the upstream changes before request r arrives: the listing that r will
\* fetch is the edited one
Edit(r) ==
    /\ r > 1
    /\ run[r].pc = "idle" /\ ~run[r].edited
    /\ \A q \in Runs : q < r => run[q].pc = "done"
    /\ run' = Set(r, [edited |-> TRUE])
    /\ UNCHANGED <<env, jobs, store, budget>>

\* requests served one after another on a store and an upstream that do
\* not fail, the upstream being edited between two requests or not
InitEdited == InitOverlapping

NextEdited == \E r \in Runs : Edit(r) \/ TriggerNext(r) \/ Step(r)

SpecEdited == InitEdited /\ [][NextEdited]_vars

(***************************************************************************)
(* Properties.                                                             *)
(***************************************************************************)
Terminal == {"completed", "completed_with_warnings", "failed"}

\* the handler of r answered 200 (processRefresh returned)
Succeeded(r) == run[r].pc = "done" /\ run[r].response.code = 200

\* the pc values from the token acquisition to the end of the flush
Working == {"acquireToken", "loadSubreddits", "listing", "posts", "comments",
            "upsertPosts", "loadPosts", "upsertComments", "loadComments",
            "deletePostSentiments", "deleteCommentSentiments",
            "insertPostSentiments", "insertCommentSentiments",
            "deleteAggregates", "upsertAggregates", "finalize"}

C2_JobLifecycle ==
    /\ [](\A r \in Runs :
            /\ run[r].pc \in Working =>
                  jobs[r].status = "processing" /\ jobs[r].started_at
            /\ run[r].pc = "done" /\ run[r].jobId # NoId =>
                  jobs[r].status \in Terminal)
    /\ [][\A r \in Runs :
            /\ jobs[r].status = "none" /\ jobs'[r].status # "none"
                  => jobs'[r].status = "queued"
            /\ jobs[r].status \in Terminal => jobs'[r].status = jobs[r].status]_vars

\* the messages of the errors fetchRedditAccessToken throws
AuthMessages ==
    {"Reddit client credentials are not configured.",
     "Reddit username/password are required for password grant.",
     "Reddit auth failed: unauthorized_client",
     "Reddit auth failed: invalid_grant"}

\* C3 as claimed: a failure of tokenManager.refresh() inside fetchJson is
\* never recorded as a warning; it reaches the catch block of the handler,
\* which ends the request as failed with that message.
C3_RefreshFailureIsFatal ==
    \A r \in Runs :
        /\ \A i \in 1..Len(run[r].errors) :
              run[r].errors[i].message \notin AuthMessages
        /\ \A i \in 1..Len(run[r].response.warnings) :
              run[r].response.warnings[i].message \notin AuthMessages

\* C4: a logical request makes at most 3 HTTP calls, whatever mix of 401,
\* 429 and 403 it is answered with, and after the third it has returned or
\* thrown.
C4_AtMostThreeAttempts ==
    \A r \in Runs :
        /\ run[r].calls <= MAX_ATTEMPTS
        /\ run[r].calls = MAX_ATTEMPTS => run[r].res \in {"ok", "err"}

\* the first listing request made 3 calls: one answered 401 (the token was
\* replaced once), one answered 429 or 403, and the last one failed
C4_Witness ==
    \E r \in Runs :
        /\ run[r].pc = "listing" /\ run[r].subIdx = 1
        /\ run[r].calls = 3 /\ run[r].token = 2 /\ run[r].res = "err"

\* the flush and what follows it: the loop over the subreddits is over
Flushing == {"upsertPosts", "loadPosts", "upsertComments", "loadComments",
             "deletePostSentiments", "deleteCommentSentiments",
             "insertPostSentiments", "insertCommentSentiments",
             "deleteAggregates", "upsertAggregates", "finalize"}

Ids(seq) == {seq[i].reddit_id : i \in 1..Len(seq)}

\* the subreddits whose listing fetch failed in request r
ListingWarned(r) ==
    {s \in Range(Subreddits) :
        \E i \in 1..Len(run[r].errors) :
            /\ run[r].errors[i].what = "Failed to fetch posts"
            /\ run[r].errors[i].subreddit = s.name}

\* C5: when the listing fetch of a subreddit fails, a warning naming the
\* subreddit is recorded, the subreddit adds nothing to the drafts and the
\* aggregates, the subreddits after it are still processed, and the request
\* is not failed on account of it.
C5_ListingFailureIsAWarning ==
    \A r \in Runs :
        /\ \A s \in Range(Subreddits) :
              (<<s.name, "err">> \in Range(run[r].log) /\ run[r].pc # "done")
                  => s \in ListingWarned(r)
        /\ \A s \in ListingWarned(r) :
              /\ \A i \in 1..Len(run[r].postRecords) :
                    run[r].postRecords[i].subreddit_id # s.id
              /\ \A i \in 1..Len(run[r].postSentiments) :
                    run[r].postSentiments[i].subreddit_id # s.id
              /\ \A i \in 1..Len(run[r].commentSentiments) :
                    run[r].commentSentiments[i].subreddit_id # s.id
              /\ \A i \in 1..Len(run[r].commentRecords) :
                    \A c \in Range(ListingChildren(s.name)) :
                        run[r].commentRecords[i].post_reddit_id # c.data.id
              /\ \A row \in run[r].aggregates : row.subreddit_id # s.id
        /\ run[r].pc \in Flushing \/ Succeeded(r) =>
              \A s \in Range(Subreddits) :
                  <<s.name, "ok">> \in Range(run[r].log)
                      \/ <<s.name, "err">> \in Range(run[r].log)
        /\ run[r].pc = "catch" =>
              /\ run[r].error # "Reddit request failed"
              /\ run[r].error \in AuthMessages => run[r].log = <<>>

\* the listing fetch of the first subreddit failed, the second subreddit
\* was processed and gave a post, and the request is about to answer 200
C5_Witness ==
    \E r \in Runs :
        /\ run[r].pc = "finalize"
        /\ Subreddits[1] \in ListingWarned(r)
        /\ <<Subreddits[2].name, "ok">> \in Range(run[r].log)
        /\ Len(run[r].postRecords) > 0

\* the children of the listings that arrived which the post filters keep
KeptPosts(r) ==
    {c \in UNION {Range(ListingChildren(s.name)) :
                     s \in {t \in Range(Subreddits) :
                               <<t.name, "ok">> \in Range(run[r].log)}} :
        PostKept(c, run[r].sinceEpoch, run[r].keyword)}

\* the comments the comment filters keep, of the kept posts whose comments
\* arrived
KeptComments(r) ==
    {c \in UNION {Range(CommentChildren(p.data.id)) :
                     p \in {q \in KeptPosts(r) :
                               <<q.data.id, "ok">> \in Range(run[r].log)}} :
        CommentKept(c, run[r].sinceEpoch, run[r].keyword)}

\* the posts whose comment fetch failed in request r
CommentsWarned(r) ==
    {run[r].errors[i].post :
        i \in {j \in 1..Len(run[r].errors) :
                  run[r].errors[j].what = "Failed to fetch comments for"}}

\* what C6 says of the records and sentiments a request produces
C6_Produced(r) ==
    /\ run[r].pc \in Flushing =>
          /\ \A p \in KeptPosts(r) :
                /\ <<p.data.id, "ok">> \in Range(run[r].log)
                      \/ <<p.data.id, "err">> \in Range(run[r].log)
                /\ <<p.data.id, "err">> \in Range(run[r].log)
                      <=> p.data.id \in CommentsWarned(r)
          /\ Ids(run[r].postRecords) = {p.data.id : p \in KeptPosts(r)}
          /\ Ids(run[r].postSentiments) =
                {p.data.id : p \in {q \in KeptPosts(r) :
                                       Len(CombinedText(q.data)) > 0}}
          /\ Ids(run[r].commentSentiments) = {c.data.id : c \in KeptComments(r)}
    /\ run[r].pc = "finalize" =>
          /\ \A i \in 1..Len(run[r].postSentiments) :
                \E p \in posts : \E x \in sentiments :
                    /\ p.reddit_id = run[r].postSentiments[i].reddit_id
                    /\ x.post_id = p.id
                    /\ x.scored_at = r
                    /\ x.compound = run[r].postSentiments[i].compound
          /\ \A i \in 1..Len(run[r].commentSentiments) :
                \E c \in comments : \E x \in sentiments :
                    /\ c.reddit_id = run[r].commentSentiments[i].reddit_id
                    /\ x.comment_id = c.id
                    /\ x.scored_at = r
                    /\ x.compound = run[r].commentSentiments[i].compound

\* a post of request r whose comment fetch failed
CommentFetchFailed(r) ==
    \E i \in 1..Len(run[r].log) : run[r].log[i][2] = "err" /\
        \E s \in Range(Subreddits) : \E c \in Range(ListingChildren(s.name)) :
            run[r].log[i][1] = c.data.id

Quiescent == \A r \in Runs : run[r].pc \in {"idle", "done"}

\* at most one sentiment row for every post and for every comment
OneScorePerSubject ==
    \A x, y \in sentiments :
        /\ x.post_id # NoId /\ x.post_id = y.post_id => x = y
        /\ x.comment_id # NoId /\ x.comment_id = y.comment_id => x = y

\* C7: after any number of requests served one after another, every post
\* and every comment has at most one sentiment row.
C7_OneScoreAfterSequentialRuns == Quiescent => OneScorePerSubject

\* the second request has replaced the score the first one gave a post
\* and the score it gave a comment
C7_Witness ==
    /\ Quiescent
    /\ \E x \in sentiments : \E old \in run[2].before.sentiments :
          x.scored_at = 2 /\ x.post_id # NoId /\ old.post_id = x.post_id
    /\ \E x \in sentiments : \E old \in run[2].before.sentiments :
          x.scored_at = 2 /\ x.comment_id # NoId /\ old.comment_id = x.comment_id

\* request r repeats the request before it: both answered 200, with the
\* same timeframe, keyword and cutoff, and the same outcome of every fetch
Repeats(r) ==
    /\ r - 1 \in Runs
    /\ Succeeded(r - 1) /\ Succeeded(r)
    /\ run[r].timeframe = run[r - 1].timeframe
    /\ run[r].keyword = run[r - 1].keyword
    /\ run[r].sinceEpoch = run[r - 1].sinceEpoch
    /\ run[r].log = run[r - 1].log
    /\ \A q \in Runs : q > r => run[q].pc = "idle"

\* C8: a request that repeats the request served just before it leaves the
\* daily aggregates as they were after that request, and the number of
\* sentiment rows as it was.
C8_RepeatedRunChangesNothing ==
    \A r \in Runs :
        Repeats(r) =>
            /\ daily = run[r].before.daily
            /\ Cardinality(sentiments) = Cardinality(run[r].before.sentiments)

\* a repeated request that rewrote aggregates, post scores and comment scores
C8_Witness ==
    \E r \in Runs :
        /\ Repeats(r)
        /\ daily # {}
        /\ \E x \in sentiments : x.scored_at = r /\ x.post_id # NoId
        /\ \E x \in sentiments : x.scored_at = r /\ x.comment_id # NoId

\* C9 as claimed: when requests overlap and their store operations
\* interleave, the store they leave has at most one sentiment row for every
\* post and every comment, and the daily aggregates one of the requests
\* writes when it is served alone.
C9_OverlapIsHarmless ==
    (\A r \in Runs : Succeeded(r)) =>
        /\ OneScorePerSubject
        /\ \E r \in Runs : daily = run[r].aggregates

\* the rows of `rows` for one subreddit and timeframe
AggregatesOf(rows, subredditId, timeframe) ==
    {x \in rows : x.subreddit_id = subredditId /\ x.timeframe = timeframe}

\* C10 as claimed: at every store state of a request's flush, every post
\* and comment that had a sentiment row before the request has either that
\* row or the row the request writes for it, and every subreddit and
\* timeframe has either the aggregate rows from before the request or the
\* aggregate rows of the request.
C10_NoHalfReplacedData ==
    \A r \in Runs :
        run[r].pc \in Flushing \cup {"catch", "done"} /\ run[r].jobId # NoId
            /\ (\A q \in Runs : q > r => run[q].pc = "idle") =>
            /\ \A old \in run[r].before.sentiments :
                  \/ old \in sentiments
                  \/ \E x \in sentiments : /\ x.scored_at = r
                                           /\ x.post_id = old.post_id
                                           /\ x.comment_id = old.comment_id
            /\ \A s \in Range(Subreddits) : \A t \in DOMAIN TIMEFRAME_CONFIG :
                  \/ AggregatesOf(daily, s.id, t)
                        = AggregatesOf(run[r].before.daily, s.id, t)
                  \/ AggregatesOf(daily, s.id, t)
                        = AggregatesOf(run[r].aggregates, s.id, t)

\* request r is the last one started
Latest(r) == \A q \in Runs : q > r => run[q].pc = "idle"

\* the scored items request r observed: the kept posts with a text and the
\* kept comments, each with its subreddit, its UTC day and its label
ObservedItems(r) ==
    LET listed == {s \in Range(Subreddits) : <<s.name, "ok">> \in Range(run[r].log)}
        postsOf(s) == {c \in Range(ListingChildren(s.name)) :
                          PostKept(c, run[r].sinceEpoch, run[r].keyword)}
        commentsOf(s) ==
            UNION {{c \in Range(CommentChildren(q.data.id)) :
                       CommentKept(c, run[r].sinceEpoch, run[r].keyword)} :
                   q \in {x \in postsOf(s) :
                             <<x.data.id, "ok">> \in Range(run[r].log)}}
    IN UNION {
         {[id |-> c.data.id, subreddit_id |-> s.id,
           day |-> BucketDate(c.data.created_utc * 1000),
           label |-> labelFromScore(polarity_scores(CombinedText(c.data)))] :
             c \in {x \in postsOf(s) : Len(CombinedText(x.data)) > 0}}
         \cup
         {[id |-> c.data.id, subreddit_id |-> s.id,
           day |-> BucketDate(c.data.created_utc * 1000),
           label |-> labelFromScore(polarity_scores(sanitizeText(c.data.body)))] :
             c \in commentsOf(s)} : s \in listed}

\* the aggregate row counted from the items of one subreddit and day
Recounted(items, subredditId, timeframe, day) ==
    LET of(label) == Cardinality({i \in items : /\ i.subreddit_id = subredditId
                                                /\ i.day = day
                                                /\ i.label = label})
    IN [subreddit_id |-> subredditId, timeframe |-> timeframe,
        bucket_start |-> day,
        positive |-> of("positive"), neutral |-> of("neutral"),
        negative |-> of("negative"),
        activity_count |-> of("positive") + of("neutral") + of("negative")]

\* C11: after a request answered 200 with timeframe T, every subreddit that
\* gave the request a scored item has, for T, exactly the aggregate rows
\* counted from the items of that request: one row for every day with an
\* item, no row left by an earlier request, no count merged with an
\* earlier one.
C11_AggregatesAreRecomputed ==
    \A r \in Runs :
        Succeeded(r) /\ Latest(r) =>
            \A s \in {i.subreddit_id : i \in ObservedItems(r)} :
                AggregatesOf(daily, s, run[r].timeframe) =
                    {Recounted(ObservedItems(r), s, run[r].timeframe, i.day) :
                        i \in {j \in ObservedItems(r) : j.subreddit_id = s}}

\* the second request, with the timeframe of the first, removed a bucket
\* the first had written for a subreddit and rewrote another one
C11_Witness ==
    /\ Succeeded(2)
    /\ \E old \in run[2].before.daily :
          /\ old.timeframe = run[2].timeframe
          /\ \E i \in ObservedItems(2) : i.subreddit_id = old.subreddit_id
          /\ \A x \in daily : ~SameBucket(x, old)
    /\ \E old \in run[2].before.daily : \E x \in daily :
          SameBucket(x, old) /\ x # old

\* the messages of the errors the flush throws
FlushMessages ==
    {"Failed to upsert posts", "Failed to load stored posts",
     "Failed to upsert comments", "Failed to load stored comments",
     "Failed to clean existing post sentiments",
     "Failed to clean existing comment sentiments",
     "Failed to insert post sentiments", "Failed to insert comment sentiments",
     "Failed to clean sentiment aggregates",
     "Failed to upsert sentiment aggregates"}

\* C12 as claimed: a store operation of the flush that fails ends the
\* flush (no later step of it writes to the store) and ends the request
\* with a job record of status failed carrying the message of the failure.
C12_FlushFailureIsFatal ==
    /\ [](\A r \in Runs :
            run[r].pc = "done" /\ run[r].response.code = 500
                /\ run[r].response.status \in FlushMessages =>
                /\ jobs[r].status = "failed"
                /\ jobs[r].error = JString(run[r].response.status))
    /\ [][\A r \in Runs :
            run[r].pc = "catch" /\ run[r].error \in FlushMessages
                => /\ store' = store
                   /\ run'[r] # run[r] => run'[r].pc = "done"]_vars

\* C13 as claimed: a request with an unsupported timeframe, or one made
\* while the store credentials or the upstream client credentials are
\* missing, never has a job record.
C13_RejectedBeforeRecord ==
    \A r \in Runs :
        run[r].pc # "idle"
            /\ (\/ run[r].timeframe \notin DOMAIN TIMEFRAME_CONFIG
                \/ ~env.supabase
                \/ ~env.client)
            => jobs[r].status = "none"

\* C14 as claimed: a job record with a terminal status, failed included,
\* has finished_at, the duration, and the numbers of posts, comments and
\* sentiments the request had written by then (the store starts empty
\* and serves one request).
C14_TerminalWritesCounts ==
    \A r \in Runs :
        jobs[r].status \in Terminal =>
            /\ jobs[r].finished_at
            /\ jobs[r].duration_ms
            /\ jobs[r].counts = << Cardinality(posts), Cardinality(comments),
                                   Cardinality(sentiments) >>

\* the subreddits whose listing arrived in request r
Listed(r) == {s \in Range(Subreddits) : <<s.name, "ok">> \in Range(run[r].log)}

\* the tests of the post loop other than the window test
PostPassesOtherTests(c, keyword) ==
    /\ c.kind = "t3"
    /\ ~c.data.stickied /\ ~c.data.removed_by_category
    /\ matchesKeyword(CombinedText(c.data), keyword)

\* the tests of the comment loop other than the window test
CommentPassesOtherTests(c, keyword) ==
    /\ c.kind = "t1"
    /\ sanitizeText(c.data.body) # <<>>
    /\ matchesKeyword(sanitizeText(c.data.body), keyword)

\* the number of sentiment drafts of request r in the bucket of `row`
DraftsInBucket(r, row) ==
    LET in(d) == /\ d.subreddit_id = row.subreddit_id
                 /\ BucketDate(d.posted_at) = row.bucket_start
    IN Cardinality({i \in 1..Len(run[r].postSentiments) :
                       in(run[r].postSentiments[i])})
       + Cardinality({i \in 1..Len(run[r].commentSentiments) :
                         in(run[r].commentSentiments[i])})

\* C15: an item created before the cutoff of the request gives no draft
\* record, no sentiment and no aggregate increment; an item created at or
\* after the cutoff that passes the other tests gives them.
C15_WindowExclusion ==
    \A r \in Runs :
        run[r].pc \in Flushing =>
            /\ \A s \in Listed(r) : \A c \in Range(ListingChildren(s.name)) :
                  /\ c.data.created_utc < run[r].sinceEpoch =>
                        /\ c.data.id \notin Ids(run[r].postRecords)
                        /\ c.data.id \notin Ids(run[r].postSentiments)
                        /\ \A i \in 1..Len(run[r].commentRecords) :
                              run[r].commentRecords[i].post_reddit_id # c.data.id
                  /\ c.data.created_utc >= run[r].sinceEpoch
                        /\ PostPassesOtherTests(c, run[r].keyword) =>
                        /\ c.data.id \in Ids(run[r].postRecords)
                        /\ Len(CombinedText(c.data)) > 0
                              => c.data.id \in Ids(run[r].postSentiments)
                  /\ <<c.data.id, "ok">> \in Range(run[r].log) =>
                        \A k \in Range(CommentChildren(c.data.id)) :
                           /\ k.data.created_utc < run[r].sinceEpoch =>
                                 /\ k.data.id \notin Ids(run[r].commentRecords)
                                 /\ k.data.id \notin Ids(run[r].commentSentiments)
                           /\ k.data.created_utc >= run[r].sinceEpoch
                                 /\ CommentPassesOtherTests(k, run[r].keyword) =>
                                 /\ k.data.id \in Ids(run[r].commentRecords)
                                 /\ k.data.id \in Ids(run[r].commentSentiments)
            /\ \A i \in 1..Len(run[r].postSentiments) :
                  run[r].postSentiments[i].posted_at >= run[r].sinceEpoch * 1000
            /\ \A i \in 1..Len(run[r].commentSentiments) :
                  run[r].commentSentiments[i].posted_at >= run[r].sinceEpoch * 1000
            /\ \A row \in run[r].aggregates :
                  row.activity_count = DraftsInBucket(r, row)

\* a request over the last 24 hours saw a post and a comment one second
\* after its cutoff, a comment at its cutoff, and a post and a comment one
\* second before it
C15_Witness ==
    \E r \in Runs :
        /\ run[r].pc = "finalize"
        /\ run[r].sinceEpoch = Cutoff24h
        /\ {"p1"} = Ids(run[r].postRecords) \cap {"p1", "p2"}
        /\ {"c1", "c6"} = Ids(run[r].commentSentiments) \cap {"c1", "c5", "c6"}
        /\ \E row \in run[r].aggregates : row.activity_count = 3

\* the comments the upstream holds whose body is "[deleted]", "[removed]",
\* missing or empty
SentinelComments ==
    {k.data.id :
        k \in {c \in UNION {Range(CommentChildren(q.data.id)) :
                              q \in UNION {Range(ListingChildren(s.name)) :
                                              s \in Range(Subreddits)}} :
                  \/ c.data.body.t # "string"
                  \/ c.data.body.v \in {DELETED, REMOVED, <<>>}}}

\* C16: a comment whose body is "[deleted]", "[removed]", missing or empty
\* has no comment record and no sentiment, in the drafts and in the store,
\* and no share in an aggregate count.
C16_SentinelCommentsAreSkipped ==
    /\ \A r \in Runs :
          /\ Ids(run[r].commentRecords) \cap SentinelComments = {}
          /\ Ids(run[r].commentSentiments) \cap SentinelComments = {}
          /\ Ids(run[r].commentRows) \cap SentinelComments = {}
          /\ \A row \in run[r].aggregates :
                run[r].pc \in Working => row.activity_count = DraftsInBucket(r, row)
    /\ \A c \in comments : c.reddit_id \notin SentinelComments
    /\ \A x \in sentiments :
          x.comment_id # NoId => \E c \in comments : c.id = x.comment_id

\* the comments of a post arrived with a deleted, a removed, a missing and
\* an empty body among them, and the flush stored the others
C16_Witness ==
    \E r \in Runs :
        /\ run[r].pc = "finalize"
        /\ {"c2", "c7", "c8", "c9"} \subseteq SentinelComments
        /\ <<"p1", "ok">> \in Range(run[r].log)
        /\ \E c \in comments : \E x \in sentiments :
              c.reddit_id = "c1" /\ x.comment_id = c.id

\* the compounds of [-1, 1], in units of 10^-6
Compounds == -1000000..1000000

\* the label the thresholds 0.05 and -0.05 give a compound
LabelOf(c) ==
    CASE c >= 50000 -> "positive"
      [] c <= -50000 -> "negative"
      [] OTHER -> "neutral"

\* both functions give every compound the label of the thresholds
LabelsAgree ==
    \A c \in Compounds :
        /\ labelFromScore(c) = LabelOf(c)
        /\ labelFromScoreWeb(c) = labelFromScore(c)

\* C17: labelFromScore gives positive exactly from 0.05 up, negative
\* exactly from -0.05 down and neutral in between, so 0.05 is positive,
\* -0.05 negative, 0.049999 and -0.049999 neutral; the web library's
\* labelFromScore gives every compound the same label; and every sentiment
\* row stored carries the label of its compound.
C17_LabelBoundaries ==
    /\ LabelsAgree
    /\ labelFromScore(50000) = "positive" /\ labelFromScore(-50000) = "negative"
    /\ labelFromScore(49999) = "neutral" /\ labelFromScore(-49999) = "neutral"
    /\ \A x \in sentiments :
          x.label = LabelOf(x.compound) /\ x.label = labelFromScoreWeb(x.compound)

\* the store holds a score of 0.05, one of -0.05, one of 0.049999 and
\* one of -0.049999, each with its label
C17_Witness ==
    /\ \E x \in sentiments : x.compound = 50000 /\ x.label = "positive"
    /\ \E x \in sentiments : x.compound = -50000 /\ x.label = "negative"
    /\ \E x \in sentiments : x.compound = 49999 /\ x.label = "neutral"
    /\ \E x \in sentiments : x.compound = -49999 /\ x.label = "neutral"

\* C18: every sentiment row has exactly one of post_id and comment_id set:
\* a row of source type post names a stored post and no comment, a row of
\* source type comment names a stored comment and no post.
C18_OneSubjectPerScore ==
    /\ \A x \in sentiments :
          \/ /\ x.source_type = "post"
             /\ x.comment_id = NoId
             /\ \E p \in posts : p.id = x.post_id
          \/ /\ x.source_type = "comment"
             /\ x.post_id = NoId
             /\ \E c \in comments : c.id = x.comment_id
    /\ \A r \in Runs :
          /\ \A i \in 1..Len(run[r].postSentimentRows) :
                /\ run[r].postSentimentRows[i].source_type = "post"
                /\ run[r].postSentimentRows[i].post_id # NoId
                /\ "comment_id" \notin DOMAIN run[r].postSentimentRows[i]
          /\ \A i \in 1..Len(run[r].commentSentimentRows) :
                /\ run[r].commentSentimentRows[i].source_type = "comment"
                /\ run[r].commentSentimentRows[i].comment_id # NoId
                /\ "post_id" \notin DOMAIN run[r].commentSentimentRows[i]

\* a flush has inserted a post sentiment and a comment sentiment
C18_Witness ==
    /\ \E x \in sentiments : x.source_type = "post" /\ x.post_id # NoId
    /\ \E x \in sentiments : x.source_type = "comment" /\ x.comment_id # NoId

\* C19: an attempt answered 401 with attempts left calls refresh once,
\* puts the token it gets into the manager, and is retried with no delay;
\* the manager then holds the token issued last, and the retry and every
\* later call of the request carry it, never the rejected one.
C19_RefreshOn401 ==
    \A r \in Runs :
        /\ run[r].pc \in {"listing", "comments"} /\ run[r].retried.status = 401 =>
              /\ run[r].retried.attempt < MAX_ATTEMPTS
              /\ run[r].retried.refreshed = 1
              /\ run[r].retried.waited = 0
              /\ run[r].attempt = run[r].retried.attempt + 1
              /\ run[r].res = "pending"
              /\ run[r].token = run[r].issued
              /\ run[r].token # run[r].sent
        /\ run[r].pc \in Working \ {"acquireToken"} => run[r].token = run[r].issued
        /\ run[r].pc \in {"listing", "comments"} /\ run[r].calls > 0
              /\ run[r].retried.status # 401 => run[r].sent = run[r].issued

\* a comments request carried, on its first call, the token a refresh
\* had put into the manager during an earlier request
C19_Witness ==
    \E r \in Runs :
        /\ run[r].pc = "comments"
        /\ run[r].calls = 1 /\ run[r].retried = NoRetry
        /\ run[r].issued = 2 /\ run[r].sent = 2

\* C20: an attempt answered 429 or 403 with attempts left is retried
\* after a wait of RATE_LIMIT_MS times the number of the attempt that
\* failed, without a refresh and with the token unchanged.
C20_BackoffOn429And403 ==
    \A r \in Runs :
        run[r].pc \in {"listing", "comments"}
            /\ run[r].retried.status \in {429, 403} =>
            /\ run[r].retried.attempt < MAX_ATTEMPTS
            /\ run[r].retried.waited = RATE_LIMIT_MS * run[r].retried.attempt
            /\ run[r].retried.refreshed = 0
            /\ run[r].attempt = run[r].retried.attempt + 1
            /\ run[r].res = "pending"
            /\ run[r].token = run[r].sent
            /\ run[r].token = run[r].issued

\* the second attempt of a request was answered 429 and waited 1800 ms
C20_Witness ==
    \E r \in Runs :
        /\ run[r].pc \in {"listing", "comments"}
        /\ run[r].retried.status = 429
        /\ run[r].retried.attempt = 2
        /\ run[r].retried.waited = 1800

\* C21: a call answered with a non-2xx status other than 401, 429 and 403
\* ends the request in failure at once: the attempt is not retried, and no
\* delay and no refresh follow it.
C21_OtherStatusFailsAtOnce ==
    \A r \in Runs :
        run[r].pc \in {"listing", "comments"}
            /\ run[r].last.status \notin {0, 401, 429, 403} \cup (200..299) =>
            /\ run[r].res = "err"
            /\ run[r].resError = "Reddit request failed"
            /\ run[r].attempt = run[r].last.attempt
            /\ run[r].calls = run[r].last.attempt
            /\ run[r].retried = NoRetry
            /\ run[r].token = run[r].sent /\ run[r].token = run[r].issued

\* the first call of a request was answered 500 and the request failed
C21_Witness ==
    \E r \in Runs :
        /\ run[r].pc \in {"listing", "comments"}
        /\ run[r].last = [status |-> 500, attempt |-> 1]
        /\ run[r].res = "err" /\ run[r].calls = 1

\* the flush steps in the order of processRefresh, and what follows them
FlushOrder ==
    <<"upsertPosts", "loadPosts", "upsertComments", "loadComments",
      "deletePostSentiments", "deleteCommentSentiments",
      "insertPostSentiments", "insertCommentSentiments",
      "deleteAggregates", "upsertAggregates", "finalize">>

\* the step of run r that follows the flush step pc when nothing fails
FlushSuccessor(r, pc) ==
    IF pc = "deleteAggregates" /\ run[r].aggregates = {}
    THEN "finalize"
    ELSE FlushOrder[(CHOOSE i \in 1..(Len(FlushOrder) - 1) : FlushOrder[i] = pc) + 1]

\* C22: a run writes to sentiments and to the daily aggregates only in its
\* flush, which starts after its last fetch and never returns to fetching,
\* and the flush steps follow one another in the fixed order: upsert posts,
\* reload post ids, upsert comments, reload comment ids, delete post
\* sentiments, delete comment sentiments, insert sentiments, delete
\* aggregates, upsert aggregates.
C22_FlushComesLastAndInOrder ==
    [][\A r \in Runs : run'[r] # run[r] =>
         /\ run[r].pc \in Range(FlushOrder) \ {"finalize"} =>
                run'[r].pc \in {"catch", FlushSuccessor(r, run[r].pc)}
         /\ run'[r].pc = "upsertPosts" => run[r].pc \in {"listing", "posts"}
         /\ posts' # posts => run[r].pc = "upsertPosts"
         /\ comments' # comments => run[r].pc = "upsertComments"
         /\ sentiments' # sentiments =>
                \/ /\ run[r].pc \in {"deletePostSentiments",
                                     "deleteCommentSentiments"}
                   /\ sentiments' \subseteq sentiments
                \/ /\ run[r].pc \in {"insertPostSentiments",
                                     "insertCommentSentiments"}
                   /\ sentiments \subseteq sentiments'
         /\ daily' # daily =>
                \/ run[r].pc = "deleteAggregates" /\ daily' \subseteq daily
                \/ run[r].pc = "upsertAggregates"]_vars

\* a run has gone through its whole flush and has written scores of a post
\* and of a comment and an aggregate
C22_Witness ==
    \E r \in Runs :
        /\ run[r].pc = "finalize"
        /\ \E x \in sentiments : x.scored_at = r /\ x.source_type = "post"
        /\ \E x \in sentiments : x.scored_at = r /\ x.source_type = "comment"
        /\ daily # {}
        /\ \E i \in 1..Len(run[r].log) : run[r].log[i][2] = "ok"

\* the grants fetchRedditAccessToken requests: the password grant first
\* when the user credentials are configured, the client-credentials grant
\* after it only when the password grant failed as unauthorized_client, and
\* the client-credentials grant alone when there are no user credentials
GrantOrder ==
    \A e \in Environments, reply1 \in TokenReplies, reply2 \in TokenReplies :
        LET got == fetchRedditAccessToken(e, reply1, reply2)
            viaPassword == requestRedditAccessToken(e, "password", reply1)
            last == requestRedditAccessToken(e, got.grants[Len(got.grants)],
                                             reply2)
        IN /\ e.user => got.grants[1] = "password"
           /\ e.user /\ Len(got.grants) > 1 =>
                  /\ got.grants = <<"password", "client_credentials">>
                  /\ ~viaPassword.ok
                  /\ viaPassword.message = "Reddit auth failed: unauthorized_client"
           /\ ~e.user => got.grants = <<"client_credentials">>
           /\ e.user /\ ~viaPassword.ok
                  /\ viaPassword.message # "Reddit auth failed: unauthorized_client" =>
                  ~got.ok /\ got.message = viaPassword.message
           /\ Len(got.grants) > 1 \/ ~e.user => got.ok = last.ok

\* C23: the token is acquired by the password grant first, by the
\* client-credentials grant only after an unauthorized_client failure or
\* without user credentials; any other failure of the first acquisition
\* ends the run before a fetch is issued, and the run ends in status failed.
C23_AuthFailureAborts ==
    /\ GrantOrder
    /\ \A r \in Runs :
           run[r].pc = "catch" /\ run[r].error \in AuthMessages =>
               run[r].log = <<>> /\ run[r].calls = 0
    /\ \A r \in Runs :
           run[r].pc = "done" /\ run[r].jobId # NoId
               /\ run[r].response.code = 500
               /\ run[r].response.status \in AuthMessages =>
               jobs[r].status = "failed"

\* the conjuncts of C23 on the order of the grants and on the abort before
\* any fetch
C23_GrantsAndAbort ==
    /\ GrantOrder
    /\ \A r \in Runs :
           run[r].pc \in {"catch", "done"} /\ run[r].jobId # NoId
               /\ (run[r].error \in AuthMessages
                   \/ (run[r].pc = "done" /\ run[r].response.code = 500
                       /\ run[r].response.status \in AuthMessages)) =>
               run[r].log = <<>> /\ run[r].calls = 0

\* the item is stickied or marked removed-by-category by the upstream
Withheld(c) == c.data.stickied \/ c.data.removed_by_category

\* the posts of the listings run r has fetched that are stickied or removed
\* have no draft record and no sentiment draft
WithheldPostsAreSkipped(r) ==
    \A s \in Listed(r) : \A c \in Range(ListingChildren(s.name)) :
        Withheld(c) =>
            /\ c.data.id \notin Ids(run[r].postRecords)
            /\ c.data.id \notin Ids(run[r].postSentiments)

\* the same of the comments of the posts whose comments run r has fetched
WithheldCommentsAreSkipped(r) ==
    \A s \in Listed(r) : \A c \in Range(ListingChildren(s.name)) :
        <<c.data.id, "ok">> \in Range(run[r].log) =>
            \A k \in Range(CommentChildren(c.data.id)) :
                Withheld(k) =>
                    /\ k.data.id \notin Ids(run[r].commentRecords)
                    /\ k.data.id \notin Ids(run[r].commentSentiments)

\* C24: a post or a comment that the upstream returns stickied or marked
\* removed-by-category gives no draft record and no sentiment draft, and so
\* no sentiment row and no aggregate increment.
C24_WithheldItemsAreSkipped ==
    \A r \in Runs :
        run[r].pc \in Flushing =>
            WithheldPostsAreSkipped(r) /\ WithheldCommentsAreSkipped(r)

\* the part of C24 on posts
C24_WithheldPosts ==
    \A r \in Runs : run[r].pc \in Flushing => WithheldPostsAreSkipped(r)

\* the row ids of the posts, and of the comments, that run r has upserted
TouchedPosts(r) == {e.id : e \in run[r].postIdMap}
TouchedComments(r) == {e.id : e \in run[r].commentIdMap}

\* C25: when the flush of a run has succeeded, no post and no comment the
\* run has upserted has a sentiment row written by an earlier run.
C25_TouchedSubjectsHaveNoOldScore ==
    \A r \in Runs :
        run[r].pc = "finalize" =>
            \A x \in sentiments :
                x.post_id \in TouchedPosts(r) \/ x.comment_id \in TouchedComments(r)
                    => x.scored_at = r

\* the part of C25 that the cleanup gives: no post and no comment the run
\* has written a sentiment row for has a row written by an earlier run
C25_RescoredSubjectsHaveNoOldScore ==
    \A r \in Runs :
        run[r].pc = "finalize" =>
            \A x \in sentiments :
                x.post_id \in postIdsForCleanup(r)
                    \/ x.comment_id \in commentIdsForCleanup(r)
                    => x.scored_at = r

\* C26: when the record of a returned run has a terminal status other than
\* failed, its error field is null if the run recorded no warning and
\* otherwise the string made of the warnings in order with " | " between
\* two of them; and a run with warnings that is answered 200 never has its
\* record in status failed.
C26_ErrorFieldHoldsWarnings ==
    \A r \in Runs :
        LET w == run[r].response.warnings
            e == jobs[r].error
        IN /\ run[r].pc = "done" /\ jobs[r].status \in Terminal \ {"failed"} =>
                /\ run[r].response.code = 200
                /\ Len(w) = 0 => e = JNull
                /\ Len(w) > 0 =>
                      /\ e.t = "string"
                      /\ Len(e.v) = 2 * Len(w) - 1
                      /\ \A i \in 1..Len(w) : e.v[2 * i - 1] = w[i]
                      /\ \A i \in 1..(Len(w) - 1) : e.v[2 * i] = " | "
           /\ Succeeded(r) /\ Len(w) > 0 => jobs[r].status # "failed"

\* a run with two warnings whose record is completed and holds both
C26_Witness ==
    \E r \in Runs :
        /\ run[r].pc = "done" /\ jobs[r].status = "completed"
        /\ Len(run[r].response.warnings) = 2
        /\ jobs[r].error =
              JString(<<run[r].response.warnings[1], " | ",
                        run[r].response.warnings[2]>>)

\* the entries of the log of run r that are comment passes of posts
PostPasses(r) ==
    {i \in 1..Len(run[r].log) :
        \A s \in Range(Subreddits) : run[r].log[i][1] # s.name}

\* the comment passes of the last post of a community that the listing
\* fetch of the next community has followed, or is following
LastPostPasses(r) ==
    {i \in PostPasses(r) :
        IF i < Len(run[r].log) THEN i + 1 \notin PostPasses(r)
        ELSE run[r].pc = "listing"}

\* C27: the fixed delay is applied once after the comment pass of each kept
\* post, failed or not, and once more after the last post of a community
\* before the listing fetch of the next community.
C27_DelayAfterPostsAndCommunities ==
    \A r \in Runs :
        run[r].pc \in {"listing", "posts", "comments"} =>
            run[r].delays = Cardinality(PostPasses(r))
                            + Cardinality(LastPostPasses(r))

\* the part of C27 on posts: one delay for each comment pass, failed or
\* not, applied before the next post is handled
C27_OneDelayPerCommentPass ==
    \A r \in Runs :
        run[r].pc \in {"listing", "posts", "comments"} \cup Flushing =>
            run[r].delays = Cardinality(PostPasses(r))

\* the sum of activity_count over the rows
RECURSIVE TotalActivity(_)
TotalActivity(rows) ==
    IF rows = {} THEN 0
    ELSE LET row == CHOOSE x \in rows : TRUE
         IN row.activity_count + TotalActivity(rows \ {row})

\* C28: at every point of a run every entry of the aggregator counts
\* positive + neutral + negative items, is the only entry of its community
\* and day, holds the items of that day only and carries the timeframe of
\* the run; and the counts of all entries add up to the number of sentiment
\* drafts of posts and comments made so far.
C28_AggregatorInvariant ==
    \A r \in Runs :
        run[r].pc \notin {"idle", "done"} =>
            /\ \A row \in run[r].aggregates :
                  /\ row.activity_count = row.positive + row.neutral + row.negative
                  /\ row.timeframe = run[r].timeframe
                  /\ \A other \in run[r].aggregates :
                        other.subreddit_id = row.subreddit_id
                            /\ other.bucket_start = row.bucket_start => other = row
                  /\ row.activity_count = DraftsInBucket(r, row)
            /\ TotalActivity(run[r].aggregates)
                  = Len(run[r].postSentiments) + Len(run[r].commentSentiments)

\* a run whose aggregator has entries of two days of one community, one of
\* them for two items, while one of its posts was left unscored
C28_Witness ==
    \E r \in Runs :
        /\ run[r].pc = "upsertPosts"
        /\ \E x, y \in run[r].aggregates :
              /\ x.subreddit_id = y.subreddit_id
              /\ x.bucket_start # y.bucket_start
              /\ x.activity_count >= 2
        /\ Len(run[r].postSentiments) > 0 /\ Len(run[r].commentSentiments) > 0
        /\ Len(run[r].postRecords) > Len(run[r].postSentiments)

\* the rows the aggregate replacement of run r must leave alone: those of
\* another timeframe and those of a community without a scored item in r
Untouchable(r, rows) ==
    {x \in rows : \/ x.timeframe # run[r].timeframe
                  \/ x.subreddit_id \notin subredditsProcessed(r)}

\* C29: a run leaves as they were the daily aggregates of the other
\* timeframes and those of the communities that gave it no scored item, and
\* a run without any scored item leaves all daily aggregates as they were.
C29_OtherAggregatesUntouched ==
    \A r \in Runs :
        run[r].jobId # NoId /\ Latest(r) =>
            /\ Untouchable(r, daily) = Untouchable(r, run[r].before.daily)
            /\ run[r].aggregates = {} => daily = run[r].before.daily

\* a run has scored items of one community while the store held rows of
\* its timeframe for another community, which gave it no scored item
C29_Witness ==
    \E r \in Runs :
        /\ Succeeded(r) /\ Latest(r)
        /\ run[r].aggregates # {}
        /\ \E x \in run[r].before.daily :
              /\ x.timeframe = run[r].timeframe
              /\ x.subreddit_id \notin subredditsProcessed(r)
              /\ x \in daily

\* a run has replaced aggregates while the store held rows of another
\* timeframe
C29_WitnessOtherTimeframe ==
    \E r \in Runs :
        /\ Succeeded(r) /\ Latest(r)
        /\ daily # run[r].before.daily
        /\ \E x \in run[r].before.daily : x.timeframe # run[r].timeframe

\* a run without a scored item has ended while the store held aggregates
C29_WitnessNothingScored ==
    \E r \in Runs :
        /\ Succeeded(r) /\ Latest(r)
        /\ run[r].aggregates = {} /\ daily # {}

\* C30: a run that has created its job record has, once its response is
\* returned, left the record in a terminal status, never in queued or
\* processing; a run ended by a thrown error has left it failed.
C30_NoRecordLeftUnfinished ==
    \A r \in Runs :
        run[r].pc = "done" /\ run[r].jobId # NoId =>
            /\ jobs[r].status \notin {"queued", "processing"}
            /\ jobs[r].finished_at
            /\ run[r].response.code = 500 => jobs[r].status = "failed"

\* the part of C30 on the response: a run that has not returned its
\* response has a step to take, whatever the store and the upstream have
\* answered so far
C30_RunCanProceed ==
    \A r \in Runs :
        run[r].pc \notin {"idle", "done"} => ENABLED Step(r) \/ ENABLED Recover(r)

====
